---- MODULE Spec2Model ----
(***************************************************************************)
(* Model of the Go API of the incident monitoring platform:                *)
(*   - the HTTP handlers IngestLogs, Health, ListIncidents and             *)
(*     GetIncidentSummary (package main), each run by a request task;      *)
(*   - the PostgreSQL-backed repository (package store): the logs and      *)
(*     incidents tables and the statements run against them;               *)
(*   - the ML service behind POST /analyze_incident.                       *)
(* A handler is split into steps at every access to the database, the ML   *)
(* service or the client, so that concurrent requests interleave the way   *)
(* echo's one-goroutine-per-request scheduling lets them.                  *)
(***************************************************************************)
EXTENDS Integers, Sequences, FiniteSets, TLC

(***************************************************************************)
(* Bounds of the model.                                                    *)
(***************************************************************************)
NumProcs == 2        \* request tasks that can run at the same time
MaxRequests == 2     \* requests served in one behaviour
MaxIncidents == 1    \* calls of CreateIncident in one behaviour
MaxLogs == 2         \* rows the logs table can hold
MaxBatch == 2        \* entries of one POST /logs body

Procs == 1..NumProcs
IncidentIds == 1..MaxIncidents

(***************************************************************************)
(* Values.  A Go pointer (to string or time.Time) or a nullable column is *)
(* a sequence: <<>> is nil / NULL, <<v>> points to v.                      *)
(***************************************************************************)
Nil == <<>>
Ptr(v) == <<v>>

StatusOK == 200
StatusAccepted == 202
StatusBadRequest == 400
StatusNotFound == 404
StatusInternalServerError == 500
StatusBadGateway == 502

\* JSON values of the metadata field.  A number is written as the pair
\* (hi, lo) that stands for hi * 2^53 + lo, with lo far below 2^53.
JSONNum(hi, lo) == [hi |-> hi, lo |-> lo]
JSONNull == [kind |-> "null", members |-> {}]
JSONObject(members) == [kind |-> "object", members |-> members]
Member(key, num) == [key |-> key, num |-> num]

\* the limit ListIncidents is called with
ListLimit == 100

(***************************************************************************)
(* Inputs.                                                                 *)
(***************************************************************************)
\* values of the incident_id path parameter, as the characters of the path
\* the digits of 2^63 - 1, the largest int64, and of 2^63
MaxInt64Str ==
    << "9", "2", "2", "3", "3", "7", "2", "0", "3", "6",
       "8", "5", "4", "7", "7", "5", "8", "0", "7" >>
TwoTo63Str == [MaxInt64Str EXCEPT ![19] = "8"]

IdStrs == { <<"1">>, <<"2">>, <<"x">>, <<>>, TwoTo63Str }

\* what the caller of CreateIncident puts in the Incident struct
Statuses == {"open"}
Severities == {"high"}
Descriptions == {"d"}

\* JSON bodies of a 2xx answer of /analyze_incident: the fields present
MLBodies ==
    { [summary |-> Ptr("S1"), root_cause |-> Ptr("R1")],
      [summary |-> Ptr("S2"), root_cause |-> Ptr("R2")],
      [summary |-> Ptr("S1"), root_cause |-> Nil] }

\* entries of a POST /logs body; Nil is an omitted timestamp or metadata
LogInputs ==
    { [timestamp |-> Ptr(0), service |-> "api", level |-> "error",
       message |-> "m",
       metadata |-> Ptr(JSONObject({Member("user_id", JSONNum(0, 12345))}))],
      [timestamp |-> Nil, service |-> "api", level |-> "warn",
       message |-> "m", metadata |-> Nil],
      [timestamp |-> Nil, service |-> "", level |-> "error",
       message |-> "m", metadata |-> Nil],
      [timestamp |-> Nil, service |-> "api", level |-> "",
       message |-> "m", metadata |-> Nil],
      [timestamp |-> Nil, service |-> "api", level |-> "error",
       message |-> "", metadata |-> Nil] }

RECURSIVE SeqsUpTo(_, _)
SeqsUpTo(S, n) ==
    IF n = 0 THEN { <<>> }
    ELSE LET shorter == SeqsUpTo(S, n - 1)
         IN  shorter \cup { Append(q, e) : q \in shorter, e \in S }

Batches == SeqsUpTo(LogInputs, MaxBatch)

(***************************************************************************)
(* State.                                                                  *)
(***************************************************************************)
VARIABLES
    incidents,     \* rows of the incidents table
    incidentSeq,   \* last value of the sequence behind incidents.id
    logs,          \* rows of the logs table, in insertion order
    logSeq,        \* last value of the sequence behind logs.id
    clock,         \* wall clock: NOW() of the database, time.Now() of the API
    procs,         \* the request tasks: handler, position and locals of each
    started,       \* number of requests accepted so far
    mlCalls,       \* per incident id, the requests sent to /analyze_incident
    faults,        \* incident ids whose ML call failed at least once
    writeFaults,   \* incident ids whose summary write failed at least once
    ok200,         \* the (id, summary, root_cause) answered with 200 so far
    repoCall       \* the last direct call of UpdateIncidentSummary, or Nil

vars == << incidents, incidentSeq, logs, logSeq, clock, procs, started,
           mlCalls, faults, writeFaults, ok200, repoCall >>

IdleProc ==
    [ op |-> "none", pc |-> "idle", id |-> 0, incident |-> Nil,
      mlAns |-> Nil, mlResp |-> Nil, resp |-> Nil ]

Init ==
    /\ incidents = {}
    /\ incidentSeq = 0
    /\ logs = << >>
    /\ logSeq = 0
    /\ clock = 0
    /\ procs = [p \in Procs |-> IdleProc]
    /\ started = 0
    /\ mlCalls = [i \in IncidentIds |-> 0]
    /\ faults = {}
    /\ writeFaults = {}
    /\ ok200 = {}
    /\ repoCall = Nil

(***************************************************************************)
(* package store: the statements of the repository, as functions of the    *)
(* table they read or write.                                               *)
(***************************************************************************)
\* a Go slice built by `var res []T` and append: nil as long as it is empty
GoSlice(elems) == [isnil |-> elems = << >>, elems |-> elems]

\* INSERT INTO incidents (status, severity, description) RETURNING id,
\* created_at: the row the statement adds, summary and the rest at NULL
NewIncidentRow(id, now, status, severity, description) ==
    [ id |-> id, created_at |-> now, status |-> status,
      severity |-> severity, description |-> description,
      summary |-> Nil, root_cause |-> Nil, resolved_at |-> Nil ]

\* SELECT ... FROM incidents WHERE id = $1, scanned: the row, or the error
\* of Scan when there is none
GetIncident(rows, id) ==
    IF \E r \in rows : r.id = id
    THEN [err |-> FALSE, inc |-> CHOOSE r \in rows : r.id = id]
    ELSE [err |-> TRUE, inc |-> Nil]

\* UpdateIncidentSummary with the SET list cut to the summary column
UpdateIncidentSummary_SummaryOnly(rows, id, summary, rootCause) ==
    { IF r.id = id
      THEN [r EXCEPT !.summary = Ptr(summary)]
      ELSE r : r \in rows }

\* UpdateIncidentSummary without the WHERE clause
UpdateIncidentSummary_AllRows(rows, id, summary, rootCause) ==
    { [r EXCEPT !.summary = Ptr(summary), !.root_cause = Ptr(rootCause)] :
        r \in rows }

\* UpdateIncidentSummary that writes root_cause only where it is NULL
UpdateIncidentSummary_KeepRootCause(rows, id, summary, rootCause) ==
    { IF r.id = id
      THEN [r EXCEPT !.summary = Ptr(summary),
                     !.root_cause = IF @ = Nil THEN Ptr(rootCause) ELSE @]
      ELSE r : r \in rows }

\* UPDATE incidents SET summary = $2, root_cause = $3 WHERE id = $1
UpdateIncidentSummary(rows, id, summary, rootCause) ==
    { IF r.id = id
      THEN [r EXCEPT !.summary = Ptr(summary), !.root_cause = Ptr(rootCause)]
      ELSE r : r \in rows }

\* the error UpdateIncidentSummary returns: the error of pool.Exec and
\* nothing else.  The command tag, which holds the number of rows the
\* UPDATE matched, is discarded.
UpdateIncidentSummaryErr(rows, id, execErr) == execErr

Min(a, b) == IF a < b THEN a ELSE b

\* ListIncidents with ORDER BY created_at ASC
ListIncidents_Ascending(rows, limit) ==
    LET n == Cardinality(rows)
        orders == { q \in [1..n -> rows] :
                      /\ \A i, j \in 1..n : i # j => q[i] # q[j]
                      /\ \A i, j \in 1..n :
                            i < j => q[i].created_at <= q[j].created_at }
    IN  { GoSlice(SubSeq(q, 1, Min(limit, n))) : q \in orders }

\* SELECT ... FROM incidents ORDER BY created_at DESC LIMIT $1: every order
\* the database may return, rows of equal created_at in any order
ListIncidents(rows, limit) ==
    LET n == Cardinality(rows)
        orders == { q \in [1..n -> rows] :
                      /\ \A i, j \in 1..n : i # j => q[i] # q[j]
                      /\ \A i, j \in 1..n :
                            i < j => q[i].created_at >= q[j].created_at }
    IN  { GoSlice(SubSeq(q, 1, Min(limit, n))) : q \in orders }

(***************************************************************************)
(* package main: helpers of the handlers.                                  *)
(***************************************************************************)
Digits == {"0", "1", "2", "3", "4", "5", "6", "7", "8", "9"}

DigitValue(c) ==
    CASE c = "0" -> 0 [] c = "1" -> 1 [] c = "2" -> 2 [] c = "3" -> 3
      [] c = "4" -> 4 [] c = "5" -> 5 [] c = "6" -> 6 [] c = "7" -> 7
      [] c = "8" -> 8 [] c = "9" -> 9

RECURSIVE DecimalValue(_)
DecimalValue(str) ==
    IF str = << >> THEN 0
    ELSE 10 * DecimalValue(SubSeq(str, 1, Len(str) - 1))
           + DigitValue(str[Len(str)])

\* digit string a stands for a larger number than b of the same length
DigitsGreater(a, b) ==
    \E k \in 1..Len(a) :
        /\ \A j \in 1..(k - 1) : a[j] = b[j]
        /\ DigitValue(a[k]) > DigitValue(b[k])

\* a digit string without leading zeros is above 2^63 - 1
OutOfRange(idStr) ==
    \/ Len(idStr) > Len(MaxInt64Str)
    \/ Len(idStr) = Len(MaxInt64Str) /\ DigitsGreater(idStr, MaxInt64Str)

\* strconv.ParseInt(idStr, 10, 64) on an unsigned digit string: ErrSyntax
\* for an empty string or a character that is no digit, ErrRange for a
\* value that does not fit 64 bits
ParseInt(idStr) ==
    IF idStr # << >> /\ (\A k \in 1..Len(idStr) : idStr[k] \in Digits)
                    /\ ~OutOfRange(idStr)
    THEN [err |-> FALSE, val |-> DecimalValue(idStr)]
    ELSE [err |-> TRUE, val |-> 0]

\* httpClient.Do gave up: a transport error, or the 10 s Timeout of the
\* client set in NewHandler
TimeoutAnswer ==
    [err |-> TRUE, status |-> 0, json |-> FALSE, body |-> Nil,
     canceled |-> FALSE]

\* httpClient.Do returned because the context of the inbound request, which
\* the outbound request carries, was cancelled
CanceledAnswer ==
    [err |-> TRUE, status |-> 0, json |-> FALSE, body |-> Nil,
     canceled |-> TRUE]

\* what the HTTP client hands back for POST /analyze_incident: a transport
\* error or timeout, or a status with a body that is JSON or is not
MLAnswers ==
    { TimeoutAnswer }
    \cup { [err |-> FALSE, status |-> 500, json |-> TRUE, body |-> Nil,
            canceled |-> FALSE] }
    \cup { [err |-> FALSE, status |-> 200, json |-> FALSE, body |-> Nil,
            canceled |-> FALSE] }
    \cup { [err |-> FALSE, status |-> 200, json |-> TRUE, body |-> b,
            canceled |-> FALSE] : b \in MLBodies }

\* json.Decode into struct{Summary, RootCause string}: a missing field
\* leaves the zero value ""
DecodeMLResp(body) ==
    [ Summary |-> IF body.summary = Nil THEN "" ELSE body.summary[1],
      RootCause |-> IF body.root_cause = Nil THEN "" ELSE body.root_cause[1] ]

JSONResp(code, error, body) == [code |-> code, error |-> error, body |-> body]

(***************************************************************************)
(* CreateIncident, called by the anomaly detector.  The sequence value is  *)
(* taken before the row is written, so an insert that fails after that has *)
(* used one; an insert that fails before it changes nothing.               *)
(***************************************************************************)
CreateIncident(status, severity, description) ==
    /\ incidentSeq < MaxIncidents
    /\ \E now \in {clock, clock + 1}, dbErr \in BOOLEAN :
          /\ clock' = now
          /\ incidentSeq' = incidentSeq + 1
          /\ incidents' =
                IF dbErr
                THEN incidents
                ELSE incidents \cup
                       { NewIncidentRow(incidentSeq + 1, now, status,
                                        severity, description) }
    /\ UNCHANGED << logs, logSeq, procs, started, mlCalls, faults,
                    writeFaults, ok200, repoCall >>

(***************************************************************************)
(* GET /api/incidents                                                      *)
(***************************************************************************)
\* dbErr: the query, a Scan or rows.Err() of ListIncidents failed
HandleListIncidents(p, dbErr) ==
    /\ procs[p].pc = "idle"
    /\ started < MaxRequests
    /\ started' = started + 1
    /\ \E res \in ListIncidents(incidents, ListLimit) :
          procs' = [procs EXCEPT ![p] =
             [@ EXCEPT !.op = "list", !.pc = "reply",
                !.resp = IF dbErr
                         THEN JSONResp(StatusInternalServerError,
                                       "failed to list incidents", Nil)
                         ELSE JSONResp(StatusOK, "", res)]]
    /\ UNCHANGED << incidents, incidentSeq, logs, logSeq, clock, mlCalls,
                    faults, writeFaults, ok200, repoCall >>

(***************************************************************************)
(* GET /api/summary/:incident_id, step by step.                            *)
(***************************************************************************)
\* SummaryParse with the error of ParseInt dropped: the request goes on
\* with the zero the failed parse returns
SummaryParse_ErrIgnored(p, idStr) ==
    /\ procs[p].pc = "idle"
    /\ started < MaxRequests
    /\ started' = started + 1
    /\ LET parsed == ParseInt(idStr)
       IN  procs' = [procs EXCEPT ![p] =
              [@ EXCEPT !.op = "summary", !.pc = "get", !.id = parsed.val]]
    /\ UNCHANGED << incidents, incidentSeq, logs, logSeq, clock, mlCalls,
                    faults, writeFaults, ok200, repoCall >>

\* lines 103-107: parse the path parameter
SummaryParse(p, idStr) ==
    /\ procs[p].pc = "idle"
    /\ started < MaxRequests
    /\ started' = started + 1
    /\ LET parsed == ParseInt(idStr)
       IN  procs' = [procs EXCEPT ![p] =
              IF parsed.err
              THEN [@ EXCEPT !.op = "summary", !.pc = "reply",
                      !.resp = JSONResp(StatusBadRequest,
                                        "invalid incident id", Nil)]
              ELSE [@ EXCEPT !.op = "summary", !.pc = "get",
                      !.id = parsed.val]]
    /\ UNCHANGED << incidents, incidentSeq, logs, logSeq, clock, mlCalls,
                    faults, writeFaults, ok200, repoCall >>

\* SummaryGetIncident without the test of line 115: every incident read
\* goes on to the ML service
SummaryGetIncident_NoCacheCheck(p) ==
    /\ procs[p].pc = "get"
    /\ \E dbErr \in BOOLEAN :
          LET got == GetIncident(incidents, procs[p].id)
          IN  procs' = [procs EXCEPT ![p] =
                 IF dbErr \/ got.err
                 THEN [@ EXCEPT !.pc = "reply",
                         !.resp = JSONResp(StatusNotFound,
                                           "incident not found", Nil)]
                 ELSE [@ EXCEPT !.pc = "call", !.incident = got.inc]]
    /\ UNCHANGED << incidents, incidentSeq, logs, logSeq, clock, started,
                    mlCalls, faults, writeFaults, ok200, repoCall >>

\* lines 109-117: read the incident, answer from it when it has a summary
SummaryGetIncident(p) ==
    /\ procs[p].pc = "get"
    /\ \E dbErr \in BOOLEAN :
          LET got == GetIncident(incidents, procs[p].id)
          IN  procs' = [procs EXCEPT ![p] =
                 IF dbErr \/ got.err
                 THEN [@ EXCEPT !.pc = "reply",
                         !.resp = JSONResp(StatusNotFound,
                                           "incident not found", Nil)]
                 ELSE IF got.inc.summary # Nil /\ got.inc.root_cause # Nil
                 THEN [@ EXCEPT !.pc = "reply", !.incident = got.inc,
                         !.resp = JSONResp(StatusOK, "", got.inc)]
                 ELSE [@ EXCEPT !.pc = "call", !.incident = got.inc]]
    /\ UNCHANGED << incidents, incidentSeq, logs, logSeq, clock, started,
                    mlCalls, faults, writeFaults, ok200, repoCall >>

\* SummaryCallML behind a lock shared by all incidents: the request goes
\* out only when no other ML call is in flight
SummaryCallML_OneAtATime(p) ==
    /\ procs[p].pc = "call"
    /\ \A q \in Procs : procs[q].pc # "wait"
    /\ procs' = [procs EXCEPT ![p].pc = "wait"]
    /\ mlCalls' = [mlCalls EXCEPT ![procs[p].id] = @ + 1]
    /\ UNCHANGED << incidents, incidentSeq, logs, logSeq, clock, started,
                    faults, writeFaults, ok200, repoCall >>

\* lines 119-132: build the request and send it to the ML service (the URL
\* is the configured one, so http.NewRequestWithContext does not fail)
SummaryCallML(p) ==
    /\ procs[p].pc = "call"
    /\ procs' = [procs EXCEPT ![p].pc = "wait"]
    /\ mlCalls' = [mlCalls EXCEPT ![procs[p].id] = @ + 1]
    /\ UNCHANGED << incidents, incidentSeq, logs, logSeq, clock, started,
                    faults, writeFaults, ok200, repoCall >>

\* MLRespond of a client built without Timeout: only the ML service ends
\* the call
MLRespond_NoTimeout(p, ans) ==
    /\ procs[p].pc = "wait"
    /\ ~ans.err
    /\ procs' = [procs EXCEPT ![p] = [@ EXCEPT !.pc = "answered", !.mlAns = ans]]
    /\ UNCHANGED << incidents, incidentSeq, logs, logSeq, clock, started,
                    mlCalls, faults, writeFaults, ok200, repoCall >>

\* the ML service, or the 10 s timeout of the HTTP client, ends the call
MLRespond(p, ans) ==
    /\ procs[p].pc = "wait"
    /\ procs' = [procs EXCEPT ![p] = [@ EXCEPT !.pc = "answered", !.mlAns = ans]]
    /\ UNCHANGED << incidents, incidentSeq, logs, logSeq, clock, started,
                    mlCalls, faults, writeFaults, ok200, repoCall >>

\* the client of request p goes away while the ML call is in flight.  The
\* server cancels c.Request().Context(), which line 126 gave to the outbound
\* request, so Do returns at once with the context's error.  (A disconnect
\* during the later write makes UpdateIncidentSummary fail, which is the
\* dbErr case of SummaryUpdate.)
ClientDisconnect(p) ==
    /\ procs[p].pc = "wait"
    /\ procs' = [procs EXCEPT ![p] =
          [@ EXCEPT !.pc = "answered", !.mlAns = CanceledAnswer]]
    /\ UNCHANGED << incidents, incidentSeq, logs, logSeq, clock, started,
                    mlCalls, faults, writeFaults, ok200, repoCall >>

\* the answer cannot be used: Do failed, the status is not 2xx, or the body
\* does not decode
MLFailed(ans) == ans.err \/ ans.status >= 300 \/ ~ans.json

\* SummaryHandleAnswer with the error of Decode dropped: an undecodable
\* body goes on to the write with the zero values of mlResp
SummaryHandleAnswer_DecodeErrIgnored(p) ==
    /\ procs[p].pc = "answered"
    /\ LET ans == procs[p].mlAns
       IN  IF ans.err \/ ans.status >= 300
           THEN /\ procs' = [procs EXCEPT ![p] =
                     [@ EXCEPT !.pc = "reply",
                        !.resp = JSONResp(StatusBadGateway,
                                          "ML service unavailable", Nil)]]
                /\ faults' = faults \cup {procs[p].id}
           ELSE /\ procs' = [procs EXCEPT ![p] =
                     [@ EXCEPT !.pc = "update",
                        !.mlResp = IF ans.json THEN DecodeMLResp(ans.body)
                                   ELSE [Summary |-> "", RootCause |-> ""]]]
                /\ faults' = faults
    /\ UNCHANGED << incidents, incidentSeq, logs, logSeq, clock, started,
                    mlCalls, writeFaults, ok200, repoCall >>

\* lines 133-144: the answer of the ML service, checked and decoded
SummaryHandleAnswer(p) ==
    /\ procs[p].pc = "answered"
    /\ LET ans == procs[p].mlAns
       IN  IF ans.err \/ ans.status >= 300
           THEN /\ procs' = [procs EXCEPT ![p] =
                     [@ EXCEPT !.pc = "reply",
                        !.resp = JSONResp(StatusBadGateway,
                                          "ML service unavailable", Nil)]]
                /\ faults' = faults \cup {procs[p].id}
           ELSE IF ~ans.json
           THEN /\ procs' = [procs EXCEPT ![p] =
                     [@ EXCEPT !.pc = "reply",
                        !.resp = JSONResp(StatusBadGateway,
                                          "invalid ML response", Nil)]]
                /\ faults' = faults \cup {procs[p].id}
           ELSE /\ procs' = [procs EXCEPT ![p] =
                     [@ EXCEPT !.pc = "update",
                        !.mlResp = DecodeMLResp(ans.body)]]
                /\ faults' = faults
    /\ UNCHANGED << incidents, incidentSeq, logs, logSeq, clock, started,
                    mlCalls, writeFaults, ok200, repoCall >>

\* SummaryUpdate answering with the incident as GetIncident read it
SummaryUpdate_AnswersAsRead(p) ==
    /\ procs[p].pc = "update"
    /\ \E dbErr \in BOOLEAN :
          LET me == procs[p]
          IN  IF dbErr
              THEN /\ procs' = [procs EXCEPT ![p] =
                        [@ EXCEPT !.pc = "reply",
                           !.resp = JSONResp(StatusInternalServerError,
                                             "failed to save summary", Nil)]]
                   /\ writeFaults' = writeFaults \cup {me.id}
                   /\ incidents' = incidents
              ELSE /\ incidents' =
                        UpdateIncidentSummary(incidents, me.id,
                                              me.mlResp.Summary,
                                              me.mlResp.RootCause)
                   /\ procs' = [procs EXCEPT ![p] =
                        [@ EXCEPT !.pc = "reply",
                           !.incident =
                              [me.incident EXCEPT
                                 !.summary = Ptr(me.mlResp.Summary),
                                 !.root_cause = Ptr(me.mlResp.RootCause)],
                           !.resp = JSONResp(StatusOK, "", me.incident)]]
                   /\ writeFaults' = writeFaults
    /\ UNCHANGED << incidentSeq, logs, logSeq, clock, started, mlCalls,
                    faults, ok200, repoCall >>

\* lines 146-153: store the summary, then answer with it
SummaryUpdate(p) ==
    /\ procs[p].pc = "update"
    /\ \E dbErr \in BOOLEAN :
          LET me == procs[p]
          IN  IF dbErr
              THEN /\ procs' = [procs EXCEPT ![p] =
                        [@ EXCEPT !.pc = "reply",
                           !.resp = JSONResp(StatusInternalServerError,
                                             "failed to save summary", Nil)]]
                   /\ writeFaults' = writeFaults \cup {me.id}
                   /\ incidents' = incidents
              ELSE /\ incidents' =
                        UpdateIncidentSummary(incidents, me.id,
                                              me.mlResp.Summary,
                                              me.mlResp.RootCause)
                   /\ procs' = [procs EXCEPT ![p] =
                        [@ EXCEPT !.pc = "reply",
                           !.incident =
                              [me.incident EXCEPT
                                 !.summary = Ptr(me.mlResp.Summary),
                                 !.root_cause = Ptr(me.mlResp.RootCause)],
                           !.resp =
                              JSONResp(StatusOK, "",
                                 [me.incident EXCEPT
                                    !.summary = Ptr(me.mlResp.Summary),
                                    !.root_cause = Ptr(me.mlResp.RootCause)])]]
                   /\ writeFaults' = writeFaults
    /\ UNCHANGED << incidentSeq, logs, logSeq, clock, started, mlCalls,
                    faults, ok200, repoCall >>

(***************************************************************************)
(* c.JSON: the response reaches the client and the task ends.              *)
(***************************************************************************)
Reply(p) ==
    /\ procs[p].pc = "reply"
    /\ ok200' =
          IF procs[p].op = "summary" /\ procs[p].resp.code = StatusOK
          THEN ok200 \cup { [ id |-> procs[p].id,
                              summary |-> procs[p].resp.body.summary,
                              root_cause |-> procs[p].resp.body.root_cause ] }
          ELSE ok200
    /\ procs' = [procs EXCEPT ![p] = IdleProc]
    /\ UNCHANGED << incidents, incidentSeq, logs, logSeq, clock, started,
                    mlCalls, faults, writeFaults, repoCall >>

(***************************************************************************)
(* POST /api/logs                                                          *)
(***************************************************************************)
\* strconv.ParseFloat(s, 64) of an integer literal: exact below 2^53; from
\* 2^53 to 2^54 the float64 values are the even integers, and a literal
\* half way between two of them goes to the one with the even mantissa
Float64(n) ==
    IF n.hi = 0 THEN n
    ELSE IF n.lo % 2 = 0 THEN n
    ELSE IF (n.lo + 1) % 4 = 0 THEN JSONNum(n.hi, n.lo + 1)
    ELSE JSONNum(n.hi, n.lo - 1)

\* c.Bind: encoding/json decodes the metadata object into map[string]any,
\* every number into a float64; an omitted field leaves the map nil
DecodeMetadata(doc) ==
    IF doc = Nil THEN Nil
    ELSE Ptr(JSONObject({ Member(m.key, Float64(m.num)) :
                            m \in doc[1].members }))

\* json.Marshal of the metadata map, as the JSON value its text denotes: a
\* nil map marshals to null, a float64 to the shortest text that reads
\* back as the same float64
JSONMarshal(metadata) == IF metadata = Nil THEN JSONNull ELSE metadata[1]

\* A Go time.Time tells apart SubMicro instants within one microsecond; the
\* clock and the TIMESTAMPTZ columns count whole microseconds.
SubMicro == 2

\* time.Now().UTC() read during microsecond c: an instant inside it
GoNow(c) == c * SubMicro + 1

\* a time.Time written to a TIMESTAMPTZ column: the microsecond it lies in
PgTimestamptz(t) == t \div SubMicro

\* BuildLogs with time.Now() read inside the loop, once per entry
BuildLogs_NowPerEntry(reqLogs, now) ==
    [ k \in 1..Len(reqLogs) |->
        [ Timestamp |-> IF reqLogs[k].timestamp # Nil
                        THEN reqLogs[k].timestamp[1]
                        ELSE now + (k - 1) * SubMicro,
          Service |-> reqLogs[k].service,
          Level |-> reqLogs[k].level,
          Message |-> reqLogs[k].message,
          Metadata |-> JSONMarshal(DecodeMetadata(reqLogs[k].metadata)) ] ]

\* lines 53-68: the LogEntry built from each entry of the request
BuildLogs(reqLogs, now) ==
    [ k \in 1..Len(reqLogs) |->
        [ Timestamp |-> IF reqLogs[k].timestamp # Nil
                        THEN reqLogs[k].timestamp[1] ELSE now,
          Service |-> reqLogs[k].service,
          Level |-> reqLogs[k].level,
          Message |-> reqLogs[k].message,
          Metadata |-> JSONMarshal(DecodeMetadata(reqLogs[k].metadata)) ] ]

\* COALESCE(v, d) of SQL: d when v is SQL NULL, else v
SQLCoalesce(v, d) == IF v = Nil THEN d ELSE v

\* INSERT INTO logs ... VALUES ($1, $2, $3, $4, COALESCE($5::jsonb, '{}')):
\* the row one queued statement adds.  $5 is the Go string l.Metadata, so
\* it is never SQL NULL: the text null casts to the JSON value null.
NewLogRow(id, l) ==
    [ id |-> id, timestamp |-> PgTimestamptz(l.Timestamp),
      service |-> l.Service,
      level |-> l.Level, message |-> l.Message,
      metadata |-> SQLCoalesce(Ptr(l.Metadata), Ptr(JSONObject({})))[1] ]

\* InsertLogs with every statement committed on its own: the statements
\* before the failing one stay
InsertLogs_PartialCommit(rows, seq, entries, failAt) ==
    [ err |-> failAt = 1,
      rows |-> rows \o [k \in 1..(IF failAt = 0 THEN Len(entries)
                                   ELSE failAt - 1) |->
                          NewLogRow(seq + k, entries[k])],
      seq |-> IF failAt = 0 THEN seq + Len(entries) ELSE seq + failAt - 1 ]

\* InsertLogs that empties the table before it inserts
InsertLogs_Replace(rows, seq, entries, failAt) ==
    [ err |-> failAt = 1,
      rows |-> IF failAt = 0
               THEN [k \in 1..Len(entries) |-> NewLogRow(seq + k, entries[k])]
               ELSE rows,
      seq |-> IF failAt = 0 THEN seq + Len(entries) ELSE seq + failAt - 1 ]

\* InsertLogs on a table whose ids are numbered from a counter that the
\* insert does not advance
InsertLogs_StaleSeq(rows, seq, entries, failAt) ==
    [ err |-> failAt = 1,
      rows |-> IF failAt = 0
               THEN rows \o [k \in 1..Len(entries) |->
                               NewLogRow(seq + k, entries[k])]
               ELSE rows,
      seq |-> seq ]

\* InsertLogs: the batch goes out as one pipeline closed by a single Sync,
\* so it commits whole or not at all.  failAt = 0: every statement ran;
\* failAt = k: statement k failed and the batch was rolled back.  br.Exec()
\* reads the result of the first statement only, and the error br.Close()
\* meets on a later one is dropped by the defer.
InsertLogs(rows, seq, entries, failAt) ==
    [ err |-> failAt = 1,
      rows |-> IF failAt = 0
               THEN rows \o [k \in 1..Len(entries) |->
                               NewLogRow(seq + k, entries[k])]
               ELSE rows,
      seq |-> IF failAt = 0 THEN seq + Len(entries) ELSE seq + failAt - 1 ]

\* SELECT ... FROM logs ORDER BY timestamp DESC LIMIT $1: every result the
\* database may return
ListRecentLogs(rows, limit) ==
    LET n == Len(rows)
        orders == { q \in [1..n -> 1..n] :
                      /\ \A i, j \in 1..n : i # j => q[i] # q[j]
                      /\ \A i, j \in 1..n :
                            i < j => rows[q[i]].timestamp >= rows[q[j]].timestamp }
    IN  { GoSlice([k \in 1..Min(limit, n) |-> rows[q[k]]]) : q \in orders }

\* HandleIngestLogs without the test of line 49: an empty array goes on to
\* InsertLogs like any other
HandleIngestLogs_NoEmptyCheck(p, body) ==
    /\ procs[p].pc = "idle"
    /\ started < MaxRequests
    /\ started' = started + 1
    /\ IF body = Nil
       THEN /\ procs' = [procs EXCEPT ![p] =
                 [@ EXCEPT !.op = "ingest", !.pc = "reply",
                    !.resp = JSONResp(StatusBadRequest, "invalid payload", Nil)]]
            /\ UNCHANGED << logs, logSeq, clock >>
       ELSE /\ Len(logs) + Len(body[1]) <= MaxLogs
            /\ \E now \in {GoNow(clock + 1)}, failAt \in 0..Len(body[1]) :
                  LET entries == BuildLogs(body[1], now)
                      ins == InsertLogs(logs, logSeq, entries, failAt)
                  IN  /\ clock' = PgTimestamptz(now)
                      /\ logs' = ins.rows
                      /\ logSeq' = ins.seq
                      /\ procs' = [procs EXCEPT ![p] =
                           [@ EXCEPT !.op = "ingest", !.pc = "reply",
                              !.resp =
                                IF ins.err
                                THEN JSONResp(StatusInternalServerError,
                                              "failed to store logs", Nil)
                                ELSE JSONResp(StatusAccepted, "",
                                       [status |-> "accepted",
                                        count |-> Len(entries)])]]
    /\ UNCHANGED << incidents, incidentSeq, mlCalls, faults, writeFaults,
                    ok200, repoCall >>

\* body: the bound request, or Nil when c.Bind fails.  time.Now() of each
\* request that reaches line 54 is a later instant than the one before.
\* HandleIngestLogs opening an incident for a batch with an error entry
HandleIngestLogs_OpensIncident(p, body) ==
    /\ procs[p].pc = "idle"
    /\ started < MaxRequests
    /\ started' = started + 1
    /\ IF body = Nil
       THEN /\ procs' = [procs EXCEPT ![p] =
                 [@ EXCEPT !.op = "ingest", !.pc = "reply",
                    !.resp = JSONResp(StatusBadRequest, "invalid payload", Nil)]]
            /\ UNCHANGED << logs, logSeq, clock >>
       ELSE IF Len(body[1]) = 0
       THEN /\ procs' = [procs EXCEPT ![p] =
                 [@ EXCEPT !.op = "ingest", !.pc = "reply",
                    !.resp = JSONResp(StatusBadRequest, "no logs provided", Nil)]]
            /\ UNCHANGED << logs, logSeq, clock >>
       ELSE /\ Len(logs) + Len(body[1]) <= MaxLogs
            /\ \E now \in {GoNow(clock + 1)}, failAt \in 0..Len(body[1]) :
                  LET entries == BuildLogs(body[1], now)
                      ins == InsertLogs(logs, logSeq, entries, failAt)
                  IN  /\ clock' = PgTimestamptz(now)
                      /\ logs' = ins.rows
                      /\ logSeq' = ins.seq
                      /\ procs' = [procs EXCEPT ![p] =
                           [@ EXCEPT !.op = "ingest", !.pc = "reply",
                              !.resp =
                                IF ins.err
                                THEN JSONResp(StatusInternalServerError,
                                              "failed to store logs", Nil)
                                ELSE JSONResp(StatusAccepted, "",
                                       [status |-> "accepted",
                                        count |-> Len(entries)])]]
    /\ IF body # Nil /\ \E k \in 1..Len(body[1]) : body[1][k].level = "error"
       THEN /\ incidents' = incidents \cup
                   { NewIncidentRow(incidentSeq + 1, clock, "open", "high",
                                    "d") }
            /\ incidentSeq' = incidentSeq + 1
       ELSE UNCHANGED << incidents, incidentSeq >>
    /\ UNCHANGED << mlCalls, faults, writeFaults, ok200, repoCall >>

HandleIngestLogs(p, body) ==
    /\ procs[p].pc = "idle"
    /\ started < MaxRequests
    /\ started' = started + 1
    /\ IF body = Nil
       THEN /\ procs' = [procs EXCEPT ![p] =
                 [@ EXCEPT !.op = "ingest", !.pc = "reply",
                    !.resp = JSONResp(StatusBadRequest, "invalid payload", Nil)]]
            /\ UNCHANGED << logs, logSeq, clock >>
       ELSE IF Len(body[1]) = 0
       THEN /\ procs' = [procs EXCEPT ![p] =
                 [@ EXCEPT !.op = "ingest", !.pc = "reply",
                    !.resp = JSONResp(StatusBadRequest, "no logs provided", Nil)]]
            /\ UNCHANGED << logs, logSeq, clock >>
       ELSE /\ Len(logs) + Len(body[1]) <= MaxLogs
            /\ \E now \in {GoNow(clock + 1)}, failAt \in 0..Len(body[1]) :
                  LET entries == BuildLogs(body[1], now)
                      ins == InsertLogs(logs, logSeq, entries, failAt)
                  IN  /\ clock' = PgTimestamptz(now)
                      /\ logs' = ins.rows
                      /\ logSeq' = ins.seq
                      /\ procs' = [procs EXCEPT ![p] =
                           [@ EXCEPT !.op = "ingest", !.pc = "reply",
                              !.resp =
                                IF ins.err
                                THEN JSONResp(StatusInternalServerError,
                                              "failed to store logs", Nil)
                                ELSE JSONResp(StatusAccepted, "",
                                       [status |-> "accepted",
                                        count |-> Len(entries)])]]
    /\ UNCHANGED << incidents, incidentSeq, mlCalls, faults, writeFaults,
                    ok200, repoCall >>

(***************************************************************************)
(* GET /api/health                                                         *)
(***************************************************************************)
\* HandleHealth answering 503 when the probe fails
HandleHealth_FailsWithProbe(p, probeErr) ==
    /\ procs[p].pc = "idle"
    /\ started < MaxRequests
    /\ started' = started + 1
    /\ \E res \in ListRecentLogs(logs, 1) :
          LET dbOK == ~probeErr
          IN  procs' = [procs EXCEPT ![p] =
                 [@ EXCEPT !.op = "health", !.pc = "reply",
                    !.resp = JSONResp(IF dbOK THEN StatusOK ELSE 503, "",
                                [status |-> "ok", checks |-> [db |-> dbOK]])]]
    /\ UNCHANGED << incidents, incidentSeq, logs, logSeq, clock, mlCalls,
                    faults, writeFaults, ok200, repoCall >>

\* probeErr: ListRecentLogs failed or ran into the 3 s deadline
HandleHealth(p, probeErr) ==
    /\ procs[p].pc = "idle"
    /\ started < MaxRequests
    /\ started' = started + 1
    /\ \E res \in ListRecentLogs(logs, 1) :
          LET dbOK == ~probeErr
          IN  procs' = [procs EXCEPT ![p] =
                 [@ EXCEPT !.op = "health", !.pc = "reply",
                    !.resp = JSONResp(StatusOK, "",
                                [status |-> "ok", checks |-> [db |-> dbOK]])]]
    /\ UNCHANGED << incidents, incidentSeq, logs, logSeq, clock, mlCalls,
                    faults, writeFaults, ok200, repoCall >>

(***************************************************************************)
(* GET /api/health step by step, for what happens while the probe waits    *)
(* for the store.                                                          *)
(***************************************************************************)
\* ListRecentLogsErr of a method that reads its single row with QueryRow
\* and Scan, which fails on a result without rows
ListRecentLogsErr_NoRows(rows, limit, dbErr) == dbErr \/ rows = << >>

\* the error ListRecentLogs returns: that of the query or of rows.Err(); a
\* result without rows is no error
ListRecentLogsErr(rows, limit, dbErr) == dbErr

\* lines 79-82: the probe is sent under a context that ends after 3 s
HealthBegin(p) ==
    /\ procs[p].pc = "idle"
    /\ started < MaxRequests
    /\ started' = started + 1
    /\ procs' = [procs EXCEPT ![p] = [@ EXCEPT !.op = "health", !.pc = "probe"]]
    /\ UNCHANGED << incidents, incidentSeq, logs, logSeq, clock, mlCalls,
                    faults, writeFaults, ok200, repoCall >>

\* lines 82-90: the store answers the probe, with rows or with an error
HealthProbeReturn(p, dbErr) ==
    /\ procs[p].op = "health"
    /\ procs[p].pc = "probe"
    /\ \E res \in ListRecentLogs(logs, 1) :
          LET dbOK == ~ListRecentLogsErr(logs, 1, dbErr)
          IN  procs' = [procs EXCEPT ![p] =
                 [@ EXCEPT !.pc = "reply",
                    !.resp = JSONResp(StatusOK, "",
                                [status |-> "ok", checks |-> [db |-> dbOK]])]]
    /\ UNCHANGED << incidents, incidentSeq, logs, logSeq, clock, started,
                    mlCalls, faults, writeFaults, ok200, repoCall >>

\* the 3 s of the context pass before the store has answered: the query
\* returns the context's error
HealthProbeDeadline(p) ==
    /\ procs[p].op = "health"
    /\ procs[p].pc = "probe"
    /\ procs' = [procs EXCEPT ![p] =
          [@ EXCEPT !.pc = "reply",
             !.resp = JSONResp(StatusOK, "",
                         [status |-> "ok", checks |-> [db |-> FALSE]])]]
    /\ UNCHANGED << incidents, incidentSeq, logs, logSeq, clock, started,
                    mlCalls, faults, writeFaults, ok200, repoCall >>

(***************************************************************************)
(* repository.UpdateIncidentSummary called on its own, with any id: what   *)
(* the statement does to the table and what the method returns.            *)
(***************************************************************************)
RepoIds == 1..(MaxIncidents + 1)
RepoSummaries == {"S1", "S2"}
RepoRootCauses == {"R1", "R2"}

RepoUpdateIncidentSummary(id, summary, rootCause, execErr) ==
    /\ repoCall' =
          Ptr([id |-> id,
               summary |-> summary,
               root_cause |-> rootCause,
               existed |-> \E r \in incidents : r.id = id,
               err |-> UpdateIncidentSummaryErr(incidents, id, execErr)])
    /\ incidents' =
          IF execErr
          THEN incidents
          ELSE UpdateIncidentSummary(incidents, id, summary, rootCause)
    /\ UNCHANGED << incidentSeq, logs, logSeq, clock, procs, started,
                    mlCalls, faults, writeFaults, ok200 >>

(***************************************************************************)
(* repository.InsertLogs called on its own.  The sequence behind logs.id   *)
(* is capped at MaxLogs.                                                   *)
(***************************************************************************)
RepoLogEntries ==
    { [ Timestamp |-> 0, Service |-> "api", Level |-> "error",
        Message |-> "m",
        Metadata |-> JSONObject({Member("user_id", JSONNum(0, 12345))}) ],
      [ Timestamp |-> 2, Service |-> "api", Level |-> "warn",
        Message |-> "m", Metadata |-> JSONNull ],
      [ Timestamp |-> 0, Service |-> "db", Level |-> "info",
        Message |-> "m", Metadata |-> JSONObject({}) ] }

RepoBatches == SeqsUpTo(RepoLogEntries, MaxBatch) \ { << >> }

RepoInsertLogs(entries, failAt) ==
    /\ logSeq + Len(entries) <= MaxLogs
    /\ LET ins == InsertLogs(logs, logSeq, entries, failAt)
       IN  /\ logs' = ins.rows
           /\ logSeq' = ins.seq
    /\ UNCHANGED << incidents, incidentSeq, clock, procs, started, mlCalls,
                    faults, writeFaults, ok200, repoCall >>

(***************************************************************************)
(* repository.ListIncidents called on its own with any limit, on a table   *)
(* that earlier runs of the server have filled.  created_at is the NOW()   *)
(* of the inserting transaction, so it need not grow with the id.          *)
(***************************************************************************)
StoredRows == MaxIncidents + 1
StoredTimes == 0..1
RepoLimits == 0..(StoredRows + 1)

StoredInit ==
    /\ \E n \in 0..StoredRows, at \in [1..StoredRows -> StoredTimes] :
          /\ incidents = { NewIncidentRow(i, at[i], "open", "high", "d") :
                             i \in 1..n }
          /\ incidentSeq = n
    /\ logs = << >>
    /\ logSeq = 0
    /\ clock = 1
    /\ procs = [p \in Procs |-> IdleProc]
    /\ started = 0
    /\ mlCalls = [i \in 1..StoredRows |-> 0]
    /\ faults = {}
    /\ writeFaults = {}
    /\ ok200 = {}
    /\ repoCall = Nil

RepoListIncidents(limit, dbErr) ==
    /\ \E res \in ListIncidents(incidents, limit) :
          repoCall' = Ptr([limit |-> limit, err |-> dbErr,
                           res |-> IF dbErr THEN GoSlice(<< >>) ELSE res])
    /\ UNCHANGED << incidents, incidentSeq, logs, logSeq, clock, procs,
                    started, mlCalls, faults, writeFaults, ok200 >>

(***************************************************************************)
(* Specifications.                                                         *)
(***************************************************************************)
CreateStep ==
    \E st \in Statuses, sv \in Severities, d \in Descriptions :
        CreateIncident(st, sv, d)

SummaryStep ==
    \E p \in Procs :
        \/ \E idStr \in IdStrs : SummaryParse(p, idStr)
        \/ SummaryGetIncident(p)
        \/ SummaryCallML(p)
        \/ \E ans \in MLAnswers : MLRespond(p, ans)
        \/ ClientDisconnect(p)
        \/ SummaryHandleAnswer(p)
        \/ SummaryUpdate(p)

ListStep == \E p \in Procs, dbErr \in BOOLEAN : HandleListIncidents(p, dbErr)

IngestStep ==
    \E p \in Procs, body \in {Nil} \cup { Ptr(b) : b \in Batches } :
        HandleIngestLogs(p, body)

HealthStep == \E p \in Procs, probeErr \in BOOLEAN : HandleHealth(p, probeErr)

ReplyStep == \E p \in Procs : Reply(p)

\* the whole service
Next ==
    \/ CreateStep
    \/ SummaryStep
    \/ ListStep
    \/ IngestStep
    \/ HealthStep
    \/ ReplyStep

Spec == Init /\ [][Next]_vars

\* the incident side: creation, listing and summaries
IncidentNext ==
    \/ CreateStep
    \/ SummaryStep
    \/ ListStep
    \/ ReplyStep

IncidentSpec == Init /\ [][IncidentNext]_vars

\* what request task p does once its request is accepted.  Its goroutine
\* keeps running and the database answers; of the ways its ML call can
\* end, only the timeout of the client is certain to come.
Progress(p) ==
    \/ SummaryGetIncident(p)
    \/ SummaryCallML(p)
    \/ MLRespond(p, TimeoutAnswer)
    \/ SummaryHandleAnswer(p)
    \/ SummaryUpdate(p)
    \/ Reply(p)

\* the server started on a database that earlier runs have filled: the
\* migrations are CREATE TABLE IF NOT EXISTS, so the incidents stay
RestartInit ==
    /\ \E n \in 0..MaxIncidents :
          /\ incidents = { NewIncidentRow(i, 0, "open", "high", "d") :
                             i \in 1..n }
          /\ incidentSeq = n
    /\ logs = << >>
    /\ logSeq = 0
    /\ clock = 0
    /\ procs = [p \in Procs |-> IdleProc]
    /\ started = 0
    /\ mlCalls = [i \in IncidentIds |-> 0]
    /\ faults = {}
    /\ writeFaults = {}
    /\ ok200 = {}
    /\ repoCall = Nil

SummaryNext == SummaryStep \/ ReplyStep

\* the summary requests alone, each request task weakly fair
FairSummarySpec ==
    RestartInit /\ [][SummaryNext]_vars /\ \A p \in Procs : WF_vars(Progress(p))

\* the log side: ingestion and the health probe
LogNext ==
    \/ IngestStep
    \/ HealthStep
    \/ ReplyStep

LogSpec == Init /\ [][LogNext]_vars

\* the repository driven directly, outside the HTTP handlers
RepoUpdateStep ==
    \E id \in RepoIds, summary \in RepoSummaries,
       rootCause \in RepoRootCauses, execErr \in BOOLEAN :
        RepoUpdateIncidentSummary(id, summary, rootCause, execErr)

\* CreateIncident with any Status in the caller's struct: the value the
\* schema defaults to, another one, and the zero value of a Go string
RepoStatuses == {"open", "resolved", ""}

RepoCreateStep ==
    \E st \in RepoStatuses, sv \in Severities, d \in Descriptions :
        CreateIncident(st, sv, d)

RepoNext == RepoCreateStep \/ RepoUpdateStep

RepoSpec == Init /\ [][RepoNext]_vars

\* the two inserting statements of the repository, in any interleaving
RepoInsertStep ==
    \E entries \in RepoBatches :
        \E failAt \in 0..Len(entries) : RepoInsertLogs(entries, failAt)

InsertNext == RepoCreateStep \/ RepoInsertStep

InsertSpec == Init /\ [][InsertNext]_vars

\* listing: the handler and the repository method behind it
RepoListStep ==
    \E limit \in RepoLimits, dbErr \in BOOLEAN : RepoListIncidents(limit, dbErr)

ListNext == RepoListStep \/ ListStep \/ ReplyStep

ListSpec == StoredInit /\ [][ListNext]_vars

\* ingestion of entries that all carry metadata: small and large integers,
\* and the empty object
MetaDocs ==
    { JSONObject({Member("user_id", JSONNum(0, 12345))}),
      JSONObject({Member("trace_id", JSONNum(1, 1))}),
      JSONObject({Member("trace_id", JSONNum(1, 2))}),
      JSONObject({}) }

MetaInputs ==
    { [timestamp |-> Nil, service |-> "api", level |-> "info",
       message |-> "m", metadata |-> Ptr(d)] : d \in MetaDocs }

MetaBatches == SeqsUpTo(MetaInputs, MaxBatch) \ { << >> }

MetaIngestStep ==
    \E p \in Procs, b \in MetaBatches : HandleIngestLogs(p, Ptr(b))

MetadataNext == MetaIngestStep \/ ReplyStep

MetadataSpec == Init /\ [][MetadataNext]_vars

\* summary requests on a table that holds StoredRows incidents, so that
\* requests for different incidents meet
SeveralInit ==
    /\ StoredInit
    /\ Cardinality(incidents) = StoredRows
    /\ \A r \in incidents : r.created_at = 0

SeveralSpec == SeveralInit /\ [][SummaryNext]_vars

\* ingestion of entries with and without a timestamp, on and off a whole
\* microsecond
TimeInputs ==
    { [timestamp |-> t, service |-> "api", level |-> "info",
       message |-> "m", metadata |-> Ptr(JSONObject({}))] :
         t \in { Nil, Ptr(0), Ptr(1), Ptr(4) } }

TimeBatches == SeqsUpTo(TimeInputs, MaxBatch) \ { << >> }

TimeIngestStep ==
    \E p \in Procs, b \in TimeBatches : HandleIngestLogs(p, Ptr(b))

TimestampNext == TimeIngestStep \/ ReplyStep

TimestampSpec == Init /\ [][TimestampNext]_vars

\* ingestion next to a table of incidents
IngestFrameNext == IngestStep \/ ReplyStep

IngestFrameSpec == SeveralInit /\ [][IngestFrameNext]_vars

\* the health probe in its steps, next to ingestion
HealthProbeStep ==
    \E p \in Procs :
        \/ HealthBegin(p)
        \/ \E dbErr \in BOOLEAN : HealthProbeReturn(p, dbErr)
        \/ HealthProbeDeadline(p)

HealthNext == TimeIngestStep \/ HealthProbeStep \/ ReplyStep

\* what is certain to happen to a health request: the deadline of its
\* probe comes, whether or not the store answers, and its answer is sent
HealthProgress(p) == HealthProbeDeadline(p) \/ Reply(p)

FairHealthSpec ==
    Init /\ [][HealthNext]_vars /\ \A p \in Procs : WF_vars(HealthProgress(p))

(***************************************************************************)
(* Properties.                                                             *)
(***************************************************************************)
\* the rows of incident id (one at most: id is the primary key)
RowsOf(id) == { r \in incidents : r.id = id }

HasSummary(r) == r.summary # Nil /\ r.root_cause # Nil
NoSummary(r) == r.summary = Nil /\ r.root_cause = Nil

\* request task p is between sending the ML request and the end of its use
InFlight(p) ==
    procs[p].op = "summary" /\ procs[p].pc \in {"wait", "answered", "update"}

\* request task p takes a step
Steps(p) == procs'[p] # procs[p]

\* C1: for requests on one incident with the ML service and the store
\* answering successfully, the ML service is called at most once for that
\* incident id, however the requests interleave.
C1_OneCollaboratorCall ==
    \A i \in IncidentIds :
        (i \notin faults /\ i \notin writeFaults) => mlCalls[i] <= 1

\* C2: two summary requests for the same incident id are never both between
\* sending the ML request and finishing with its answer.
C2_OneInFlightPerIncident ==
    \A p, q \in Procs :
        (p # q /\ InFlight(p) /\ InFlight(q)) => procs[p].id # procs[q].id

\* C3: all 200 answers of summary requests for one incident carry the same
\* (summary, root_cause) pair.
C3_SamePairForAll ==
    \A a, b \in ok200 : a.id = b.id => a = b

\* C4: once an incident has a stored (summary, root_cause) pair, no step
\* replaces it with a different pair.
C4_PairNeverReplaced ==
    [][ \A r \in incidents :
           HasSummary(r) =>
              \E r2 \in incidents' :
                 /\ r2.id = r.id
                 /\ r2.summary = r.summary
                 /\ r2.root_cause = r.root_cause ]_vars

\* C5: every incident row has summary and root_cause both NULL or both set.
C5_PairBothOrNeither ==
    \A r \in incidents : (r.summary = Nil) <=> (r.root_cause = Nil)

\* an incident got its pair after an earlier attempt on it had failed
C5_Witness ==
    \E r \in incidents :
        HasSummary(r) /\ r.id \in faults /\ incidentSeq = MaxIncidents

\* C6: a summary request that reads an incident with both fields set (the
\* read itself not failing) answers 200 with exactly the stored pair, and the step neither calls the
\* ML service nor writes the store.
C6_CacheHit ==
    [][ \A p \in Procs :
           LET got == GetIncident(incidents, procs[p].id)
           IN  ( /\ procs[p].op = "summary"
                 /\ procs[p].pc = "get"
                 /\ ~got.err
                 /\ HasSummary(got.inc)
                 /\ Steps(p)
                 /\ ~( /\ procs'[p].pc = "reply"
                       /\ procs'[p].resp.code = StatusNotFound ) )
               => /\ procs'[p].pc = "reply"
                  /\ procs'[p].resp.code = StatusOK
                  /\ procs'[p].resp.body.summary = got.inc.summary
                  /\ procs'[p].resp.body.root_cause = got.inc.root_cause
                  /\ mlCalls' = mlCalls
                  /\ incidents' = incidents ]_vars

\* a second request is answered from the stored pair that an earlier
\* request was answered with
C6_Witness ==
    \E p \in Procs :
        /\ procs[p].op = "summary"
        /\ procs[p].pc = "reply"
        /\ procs[p].resp.code = StatusOK
        /\ procs[p].mlResp = Nil
        /\ [ id |-> procs[p].id,
             summary |-> procs[p].resp.body.summary,
             root_cause |-> procs[p].resp.body.root_cause ] \in ok200
        /\ mlCalls[procs[p].id] = 1

\* C7: when the ML call fails (transport error or timeout, non-2xx status,
\* undecodable body) the request answers 502 and writes nothing; and a
\* request that then reads the incident, still without a summary, goes on
\* to call the ML service again.
C7_UpstreamFailure ==
    [][ \A p \in Procs :
           /\ ( /\ procs[p].pc = "answered"
                /\ MLFailed(procs[p].mlAns)
                /\ Steps(p) )
              => /\ procs'[p].pc = "reply"
                 /\ procs'[p].resp.code = StatusBadGateway
                 /\ incidents' = incidents
           /\ ( /\ procs[p].pc = "get"
                /\ procs[p].id \in faults
                /\ \E r \in RowsOf(procs[p].id) : NoSummary(r)
                /\ Steps(p)
                /\ procs'[p].pc # "reply" )
              => /\ procs'[p].pc = "call"
                 /\ incidents' = incidents ]_vars

\* after a failed ML call on an incident, a request that started when no
\* other was running has called the ML service for it again
C7_Witness ==
    \E p \in Procs :
        /\ procs[p].pc = "wait"
        /\ procs[p].id \in faults
        /\ procs[p].id \notin writeFaults
        /\ mlCalls[procs[p].id] = 2
        /\ \A q \in Procs \ {p} : procs[q].pc = "idle"
        /\ \E r \in RowsOf(procs[p].id) : NoSummary(r)

\* C8: when the ML call succeeded and decoded, the request answers 200 with
\* the computed pair, also when the write of the pair failed.
C8_WriteFailureStillAnswers ==
    \A p \in Procs :
        ( /\ procs[p].op = "summary"
          /\ procs[p].pc = "reply"
          /\ procs[p].mlResp # Nil )
        => /\ procs[p].resp.code = StatusOK
           /\ procs[p].resp.body.summary = Ptr(procs[p].mlResp.Summary)
           /\ procs[p].resp.body.root_cause = Ptr(procs[p].mlResp.RootCause)

\* C9: a pair answered with 200 for an incident is the pair the store holds
\* for it from the answer on, and the pair every list of incidents shows.
C9_AnswerIsStored ==
    \A e \in ok200 :
        \A l \in ListIncidents(incidents, ListLimit) :
            \E k \in 1..Len(l.elems) :
                /\ l.elems[k].id = e.id
                /\ l.elems[k].summary = e.summary
                /\ l.elems[k].root_cause = e.root_cause

\* an entry of a POST /logs body with an empty service, level or message
Malformed(e) == e.service = "" \/ e.level = "" \/ e.message = ""

HasMalformed(b) == \E k \in 1..Len(b) : Malformed(b[k])

\* C10: a batch with a malformed entry is answered 400 and adds no row to
\* the logs table.
C10_MalformedBatchRejected ==
    [][ \A p \in Procs, b \in Batches :
           (HasMalformed(b) /\ HandleIngestLogs(p, Ptr(b)))
           => /\ procs'[p].resp.code = StatusBadRequest
              /\ logs' = logs ]_vars

\* the rows of the logs table from position n + 1 on are the entries of
\* batch b, in order, with the submitted service, level and message
BatchAppended(before, after, b) ==
    /\ Len(after) = Len(before) + Len(b)
    /\ SubSeq(after, 1, Len(before)) = before
    /\ \A k \in 1..Len(b) :
          /\ after[Len(before) + k].service = b[k].service
          /\ after[Len(before) + k].level = b[k].level
          /\ after[Len(before) + k].message = b[k].message

\* C11: a POST /logs step leaves the logs table unchanged or extended by
\* every entry of the batch; never by a strict non-empty part of it.
C11_BatchAllOrNothing ==
    [][ \A p \in Procs, b \in Batches :
           \/ logs' = logs
           \/ BatchAppended(logs, logs', b)
           \/ ~Steps(p)
           \/ ~HandleIngestLogs(p, Ptr(b)) ]_vars

\* a batch of two entries failed at its second statement and left no row
C11_Witness ==
    /\ logs = << >>
    /\ logSeq = 1
    /\ \E p \in Procs : procs[p].op = "ingest" /\ procs[p].pc = "reply"

\* C12: POST /logs with an empty logs array, or with a body that does not
\* bind, answers 400 ("no logs provided" for the empty array) before the
\* clock is read and without touching the logs table or its sequence.
C12_EmptyBatchRejected ==
    [][ \A p \in Procs :
           /\ HandleIngestLogs(p, Ptr(<< >>))
              => /\ procs'[p].resp.code = StatusBadRequest
                 /\ procs'[p].resp.error = "no logs provided"
                 /\ UNCHANGED << logs, logSeq, clock >>
           /\ HandleIngestLogs(p, Nil)
              => /\ procs'[p].resp.code = StatusBadRequest
                 /\ UNCHANGED << logs, logSeq, clock >> ]_vars

\* an empty array has been rejected while the table already held rows
C12_Witness ==
    /\ Len(logs) > 0
    /\ \E p \in Procs :
          /\ procs[p].op = "ingest"
          /\ procs[p].pc = "reply"
          /\ procs[p].resp.error = "no logs provided"

\* C13: the metadata stored with a log row is never the JSON value null.
C13_MetadataNeverNull ==
    \A k \in 1..Len(logs) : logs[k].metadata # JSONNull

\* C14: a POST /logs answered 202 carries the number of entries of the
\* request as count, and the logs table has grown by exactly these entries,
\* in request order.
C14_AcceptedMeansStored ==
    [][ \A p \in Procs, b \in Batches :
           ( /\ HandleIngestLogs(p, Ptr(b))
             /\ procs'[p].resp.code = StatusAccepted )
           => /\ procs'[p].resp.body.status = "accepted"
              /\ procs'[p].resp.body.count = Len(b)
              /\ BatchAppended(logs, logs', b) ]_vars

\* C15: a summary request answers 404 at its read exactly when no incident
\* has the requested id, and the 404 comes with no ML call and no write.
C15_NotFoundOnlyWhenMissing ==
    [][ \A p \in Procs :
           ( /\ procs[p].op = "summary"
             /\ procs[p].pc = "get"
             /\ Steps(p) )
           => /\ ( /\ procs'[p].pc = "reply"
                   /\ procs'[p].resp.code = StatusNotFound )
                 <=> GetIncident(incidents, procs[p].id).err
              /\ GetIncident(incidents, procs[p].id).err
                 => /\ mlCalls' = mlCalls
                    /\ incidents' = incidents ]_vars

\* C16: GET /health answers 200 with status ok whatever the probe did, and
\* the db check is true exactly when ListRecentLogs(1) succeeded.
C16_HealthAlwaysOK ==
    [][ \A p \in Procs, probeErr \in BOOLEAN :
           HandleHealth(p, probeErr)
           => /\ procs'[p].pc = "reply"
              /\ procs'[p].resp.code = StatusOK
              /\ procs'[p].resp.body.status = "ok"
              /\ procs'[p].resp.body.checks.db = ~probeErr ]_vars

\* the probe failed on a table that holds rows, and the answer says so
C16_Witness ==
    /\ Len(logs) > 0
    /\ \E p \in Procs :
          /\ procs[p].op = "health"
          /\ procs[p].pc = "reply"
          /\ procs[p].resp.body.checks.db = FALSE

\* C20: a 2xx answer of the ML service whose JSON body lacks summary or
\* root_cause is answered 502 and nothing is written.
C20_MissingFieldsRejected ==
    [][ \A p \in Procs :
           ( /\ procs[p].pc = "answered"
             /\ ~MLFailed(procs[p].mlAns)
             /\ \/ procs[p].mlAns.body.summary = Nil
                \/ procs[p].mlAns.body.root_cause = Nil
             /\ Steps(p) )
           => /\ procs'[p].pc = "reply"
              /\ procs'[p].resp.code = StatusBadGateway
              /\ incidents' = incidents ]_vars

\* C17: no ML call in flight is ended by the disconnect of the client that
\* made the request.
C17_DisconnectDoesNotAbort ==
    \A p \in Procs : procs[p].mlAns # Nil => ~procs[p].mlAns.canceled

\* C18: every summary request that was accepted is answered in the end,
\* also when the ML service never answers and whatever the other requests
\* for the incident do.
C18_EveryRequestAnswered ==
    \A p \in Procs :
        (procs[p].op = "summary" /\ procs[p].pc # "idle")
           ~> (procs[p].pc = "idle")

\* a request for an incident is being answered while an earlier ML call for
\* the same incident is still waiting
C18_Witness ==
    \E p, q \in Procs :
        /\ p # q
        /\ procs[p].pc = "wait"
        /\ procs[q].op = "summary"
        /\ procs[q].pc = "reply"
        /\ procs[q].id = procs[p].id
        /\ procs[q].mlAns = TimeoutAnswer

\* C19: UpdateIncidentSummary called with an id that no incident has
\* returns an error and leaves the table as it was.
C19_MissingIdReportsNotFound ==
    (repoCall # Nil /\ ~repoCall[1].existed) => repoCall[1].err

\* C21: every incident CreateIncident has stored has status open, whatever
\* Status the caller's struct carried.
C21_CreatedIncidentIsOpen ==
    \A r \in incidents : r.status = "open"

SortedDesc(list) ==
    /\ \A k \in 1..Len(list) : list[k] \in incidents
    /\ \A i, j \in 1..Len(list) : i # j => list[i] # list[j]
    /\ \A i, j \in 1..Len(list) :
          i < j => list[i].created_at >= list[j].created_at

\* no row left out of list was created after a row of list
MostRecent(list) ==
    \A r \in incidents :
        (\A k \in 1..Len(list) : list[k] # r)
           => \A k \in 1..Len(list) : list[k].created_at >= r.created_at

C24_LogsAppendOnly ==
    [][ /\ Len(logs') >= Len(logs)
        /\ \A k \in 1..Len(logs) : logs'[k] = logs[k] ]_vars

\* a second request has added its row behind the row of the first
C24_Witness ==
    /\ Len(logs) = 2
    /\ started = 2
    /\ clock = 2

\* C25: every row a POST /logs step stores holds, as its metadata, the
\* document its entry of the request carried: the same keys with the same
\* numbers.
C25_MetadataRoundTrips ==
    [][ \A p \in Procs, b \in MetaBatches :
           \/ logs' = logs
           \/ ~Steps(p)
           \/ ~HandleIngestLogs(p, Ptr(b))
           \/ \A k \in 1..Len(b) :
                 logs'[Len(logs) + k].metadata = b[k].metadata[1] ]_vars

\* the (summary, root_cause) pairs a single answer of the ML service gives
AnswerPairs == { DecodeMLResp(b) : b \in MLBodies }

\* C26: the pair stored for an incident is the pair of one answer of the ML
\* service, never the summary of one answer with the root_cause of another,
\* however the writes of concurrent requests interleave.
C26_PairFromOneAnswer ==
    \A r \in incidents :
        HasSummary(r)
           => [Summary |-> r.summary[1], RootCause |-> r.root_cause[1]]
                 \in AnswerPairs

\* two requests wrote different answers for one incident: the one that
\* wrote first is about to answer while the row holds the other's pair
C26_Witness ==
    \E p \in Procs, r \in incidents :
        /\ procs[p].op = "summary"
        /\ procs[p].pc = "reply"
        /\ procs[p].resp.code = StatusOK
        /\ procs[p].mlResp # Nil
        /\ r.id = procs[p].id
        /\ HasSummary(r)
        /\ r.summary[1] # procs[p].mlResp.Summary
        /\ r.root_cause[1] # procs[p].mlResp.RootCause

\* C27: while the ML call of a request for one incident is in flight, every
\* request for another incident can take its next step: its read, its ML
\* call, the check of the answer and its write.
C27_OtherIncidentNeverWaits ==
    \A p, q \in Procs :
        (/\ p # q
         /\ procs[q].op = "summary"
         /\ procs[q].pc = "wait"
         /\ procs[p].op = "summary"
         /\ procs[p].id # procs[q].id)
        => /\ procs[p].pc = "get" => ENABLED SummaryGetIncident(p)
           /\ procs[p].pc = "call" => ENABLED SummaryCallML(p)
           /\ procs[p].pc = "answered" => ENABLED SummaryHandleAnswer(p)
           /\ procs[p].pc = "update" => ENABLED SummaryUpdate(p)

\* a request has read its incident and got its answer while the ML call
\* for another incident, sent before, is still out
C27_Witness ==
    \E p, q \in Procs :
        /\ procs[q].op = "summary"
        /\ procs[q].pc = "wait"
        /\ procs[p].op = "summary"
        /\ procs[p].pc = "update"
        /\ procs[p].id # procs[q].id
        /\ \E r \in incidents : r.id = procs[p].id
        /\ \E r \in incidents : r.id = procs[q].id

\* C28 as stated: a row stored for an entry that carried a timestamp holds
\* exactly that instant, and the rows of the entries of one batch that
\* carried none all hold the one instant read for the request.
C28_TimestampStoredExactly ==
    [][ \A p \in Procs, b \in TimeBatches :
           \/ logs' = logs
           \/ ~Steps(p)
           \/ ~HandleIngestLogs(p, Ptr(b))
           \/ \A k \in 1..Len(b) :
                 IF b[k].timestamp # Nil
                 THEN logs'[Len(logs) + k].timestamp * SubMicro
                         = b[k].timestamp[1]
                 ELSE logs'[Len(logs) + k].timestamp = clock' ]_vars

\* C28, amended: a row stored for an entry that carried a timestamp holds
\* the microsecond that instant lies in, and the rows of the entries of one
\* batch that carried none all hold the microsecond of the one instant read
\* for the request.
C28_TimestampStoredToMicrosecond ==
    [][ \A p \in Procs, b \in TimeBatches :
           \/ logs' = logs
           \/ ~Steps(p)
           \/ ~HandleIngestLogs(p, Ptr(b))
           \/ \A k \in 1..Len(b) :
                 LET stored == logs'[Len(logs) + k].timestamp
                     given == b[k].timestamp
                 IN  IF given # Nil
                     THEN /\ stored * SubMicro <= given[1]
                          /\ given[1] < (stored + 1) * SubMicro
                     ELSE /\ stored = clock'
                          /\ clock' > clock ]_vars

\* the two entries of one batch, both without timestamp, are stored with
\* the time of their request
C28_Witness ==
    /\ Len(logs) = 2
    /\ logs[1].timestamp = clock
    /\ logs[2].timestamp = clock
    /\ clock = 1
    /\ started = 1

\* path parameters that are no base-10 64-bit integer: a letter, the empty
\* string, and 2^63
BadIdStrs == { <<"x">>, << >>, TwoTo63Str }

\* C29: a summary request whose id is no base-10 64-bit integer is answered
\* 400 by its first step, which reads no incident and sends nothing to the
\* ML service; all that is left of the request is the delivery of the 400.
C29_InvalidIdRejected ==
    [][ \A p \in Procs :
           /\ \A idStr \in BadIdStrs :
                 (Steps(p) /\ SummaryParse(p, idStr))
                 => /\ procs'[p].pc = "reply"
                    /\ procs'[p].resp.code = StatusBadRequest
                    /\ procs'[p].incident = Nil
                    /\ UNCHANGED << incidents, incidentSeq, mlCalls >>
           /\ ( /\ procs[p].op = "summary"
                /\ procs[p].pc = "reply"
                /\ procs[p].resp.code = StatusBadRequest
                /\ Steps(p) )
              => /\ procs'[p].pc = "idle"
                 /\ UNCHANGED << incidents, incidentSeq, mlCalls >> ]_vars

\* a request with an invalid id is about to get its 400 while the table
\* holds an incident that has never been sent to the ML service
C29_Witness ==
    /\ \E p \in Procs :
          /\ procs[p].op = "summary"
          /\ procs[p].pc = "reply"
          /\ procs[p].resp.code = StatusBadRequest
    /\ incidents # {}
    /\ \A i \in IncidentIds : mlCalls[i] = 0

\* C30: a POST /logs step that got past validation and added no row, which
\* is what a failed insert leaves, answers 500 and not 202.
C30_StoreFailureIs500 ==
    [][ \A p \in Procs :
           ( /\ procs[p].pc = "idle"
             /\ Steps(p)
             /\ procs'[p].op = "ingest"
             /\ procs'[p].resp.code # StatusBadRequest
             /\ logs' = logs )
           => procs'[p].resp.code = StatusInternalServerError ]_vars

\* C31: a health request whose probe the store never answers is still
\* answered: the deadline ends the probe and the answer is 200 with db
\* false; and a probe the store answers on an empty logs table gives 200
\* with db true.
C31_HealthProbeBounded ==
    /\ [][ \A p \in Procs :
              /\ (Steps(p) /\ HealthProbeDeadline(p))
                 => /\ procs'[p].resp.code = StatusOK
                    /\ procs'[p].resp.body.checks.db = FALSE
              /\ (Steps(p) /\ logs = << >> /\ HealthProbeReturn(p, FALSE))
                 => /\ procs'[p].resp.code = StatusOK
                    /\ procs'[p].resp.body.checks.db = TRUE ]_vars
    /\ \A p \in Procs :
          (procs[p].op = "health" /\ procs[p].pc = "probe")
             ~> (procs[p].pc = "idle")

\* on an empty logs table one health request is answered db true and
\* another db false
C31_Witness ==
    /\ logs = << >>
    /\ \E p, q \in Procs :
          /\ procs[p].op = "health" /\ procs[p].pc = "reply"
          /\ procs[p].resp.body.checks.db = TRUE
          /\ procs[q].op = "health" /\ procs[q].pc = "reply"
          /\ procs[q].resp.body.checks.db = FALSE

\* rows r and r2 agree on every column but summary and root_cause
SameButSummary(r, r2) ==
    /\ r2.id = r.id
    /\ r2.created_at = r.created_at
    /\ r2.status = r.status
    /\ r2.severity = r.severity
    /\ r2.description = r.description
    /\ r2.resolved_at = r.resolved_at

\* C32: a step of a summary request leaves the logs table alone, adds and
\* removes no incident, leaves every incident but the requested one as it
\* is, and changes at most summary and root_cause of the requested one.
C32_SummaryFrame ==
    [][ \A p \in Procs :
           (Steps(p) /\ procs'[p].op = "summary")
           => /\ UNCHANGED << logs, logSeq, incidentSeq >>
              /\ Cardinality(incidents') = Cardinality(incidents)
              /\ \A r \in incidents :
                    \E r2 \in incidents' :
                       /\ SameButSummary(r, r2)
                       /\ r.id # procs'[p].id => r2 = r ]_vars

\* one incident has got its pair, written by a request, while another one,
\* whose request failed, has none
C32_Witness ==
    \E r1, r2 \in incidents :
        /\ HasSummary(r1)
        /\ NoSummary(r2)
        /\ r2.id \in faults
        /\ \E a \in ok200 : a.id = r1.id

\* C33: a step of POST /logs, whatever its body and its outcome, leaves the
\* incidents table and its sequence as they are and sends nothing to the ML
\* service.
C33_IngestOnlyPersistsLogs ==
    [][ \A p \in Procs :
           (Steps(p) /\ procs'[p].op = "ingest")
           => UNCHANGED << incidents, incidentSeq, mlCalls >> ]_vars

\* next to a table of incidents, one request was accepted and its rows are
\* stored, and another was rejected
C33_Witness ==
    /\ Cardinality(incidents) = StoredRows
    /\ Len(logs) > 0
    /\ \E p, q \in Procs :
          /\ procs[p].op = "ingest" /\ procs[p].pc = "reply"
          /\ procs[p].resp.code = StatusAccepted
          /\ procs[q].op = "ingest" /\ procs[q].pc = "reply"
          /\ procs[q].resp.code = StatusBadRequest

\* C34: a 200 of GET /summary/{id}, waiting to be written or delivered,
\* carries an incident whose summary and root_cause are both set (not null),
\* whether the stored pair was served or a new one was computed.
C34_OkSummaryHasBoth ==
    /\ \A p \in Procs :
          (/\ procs[p].op = "summary"
           /\ procs[p].pc = "reply"
           /\ procs[p].resp.code = StatusOK)
          => /\ procs[p].resp.body.summary # Nil
             /\ procs[p].resp.body.root_cause # Nil
    /\ \A a \in ok200 : a.summary # Nil /\ a.root_cause # Nil

\* a computed pair was delivered with a 200, and a later request is about to
\* answer 200 from the stored pair, without having called the ML service
C34_Witness ==
    /\ ok200 # {}
    /\ \E p \in Procs :
          /\ procs[p].op = "summary"
          /\ procs[p].pc = "reply"
          /\ procs[p].resp.code = StatusOK
          /\ procs[p].mlResp = Nil
          /\ mlCalls[procs[p].id] = 1

\* C35: a 200 of GET /incidents carries a list, a JSON array, and never the
\* nil slice that is written as null; on a table without incidents it is
\* the empty list.
C35_OkListIsArray ==
    \A p \in Procs :
        (/\ procs[p].op = "list"
         /\ procs[p].pc = "reply"
         /\ procs[p].resp.code = StatusOK)
        => /\ ~procs[p].resp.body.isnil
           /\ Len(procs[p].resp.body.elems) = Min(Cardinality(incidents),
                                                  ListLimit)

====
